---- MODULE Spec2Model ----
(***************************************************************************)
(* Model of kiasaki/ush's vendored terminal package (term: raw mode,       *)
(* byte decode loop) and line editor (prompt: edit buffer, history,        *)
(* completion).                                                            *)
(*                                                                         *)
(* Strings are sequences of bytes (0..255), as Go strings are; runes are   *)
(* integers (code points).                                                 *)
(***************************************************************************)
EXTENDS Integers, Sequences, FiniteSets, TLC

VARIABLES
    \* ---- term.Terminal.readEvents: one collection window being decoded
    seq,        \* the runes collected in the window (local seq)
    i,          \* loop index into seq (local i)
    events,     \* the events sent on t.events for this window, in order
    srcs,       \* for each event sent, the 0-based positions of seq it stands for
    \* ---- term.Terminal and its device
    devMode,        \* the mode attributes of the tty device
    tin,            \* t.in: "nil" or "open"
    tout,           \* t.out: "nil" or "open"
    inBuffer,       \* t.inBuffer: "nil", "tty" (reads t.in) or "nop" (reads NopReader)
    running,        \* t.running
    originalMode,   \* t.originalMode: <<>> for nil, else <<mode>>
    runesCh,        \* t.runes: "nil", "open" or "closed"
    eventsCh,       \* t.events: "nil", "open" or "closed"
    sigwinch,       \* SIGWINCH delivery: "default", "notify" (t.sigwinch registered)
    Width,          \* t.Width
    lastCall,       \* the last call made on the Terminal and how it ended
    startErr,       \* what the latest Start returned ("never": no Start yet)
    modeBeforeStart,\* the device mode when the latest Start was entered
    \* ---- prompt.Prompt and the promptState of one Prompt() call
    pc,                 \* position of the Prompt() call
    history,            \* p.history
    hasCompletionFn,    \* p.completionFn != nil
    prompt,             \* state.prompt
    line,               \* state.line
    historyIndex,       \* state.historyIndex
    completionOptions,  \* state.completionOptions (nil is the empty list)
    ret,                \* what Prompt() returned: [line, err]
    out,                \* the writes made on t.out while handling the last event
    lastEv,             \* the last event taken from t.Events()
    fnCall,             \* <<[arg, ret]>> when the last event called completionFn, else <<>>
    histCall,           \* the last call that changed p.history: [op, arg]
    \* ---- the colors set on the Terminal
    colors,             \* [fg, bg]: the last arguments of SetFg and SetBg (-1: none yet)
    \* ---- one Terminal over its sessions: the goroutines and channels of Start
    gen,        \* the number of Starts that made channels: t.runes, t.events and
                \* t.sigwinch are the channels of chans[gen]
    chans,      \* for each such Start, the channels it made:
                \* [runes, events: what is buffered; sig: signals buffered in
                \*  t.sigwinch; closed: Stop has closed runes and events]
    readers,    \* for each such Start, its readRunes goroutine: [pc, r]
    decoders,   \* for each such Start, its readEvents goroutine:
                \* [pc, seq, i, sel: the channels its select waits on]
    devInput,   \* the runes the user is still to type on the tty
    fed,        \* the runes ReadRune returned while the current session ran
    delivered,  \* the events the caller took from t.Events() in the current session
    sigCount    \* SIGWINCH: [got: the notifications sent to the process while
                \* t.sigwinch was registered, lost: those the full t.sigwinch dropped]

decodeVars == <<seq, i, events, srcs>>
termVars == <<devMode, tin, tout, inBuffer, running, originalMode, runesCh, eventsCh,
              sigwinch, Width, lastCall, startErr, modeBeforeStart>>
promptVars == <<pc, history, hasCompletionFn, prompt, line, historyIndex,
                completionOptions, ret, out, lastEv, fnCall, histCall>>
colorVars == <<colors>>
sessVars == <<gen, chans, readers, decoders, devInput, fed, delivered, sigCount>>
sideVars == <<colorVars, sessVars>>
vars == <<decodeVars, termVars, promptVars, sideVars>>

(***************************************************************************)
(* term: key codes and event types                                         *)
(***************************************************************************)
KeyCtrlC == 3
KeyCtrlD == 4
KeyTab == 9
KeyCtrlL == 12
KeyCr == 13
KeyCtrlU == 21
KeyEsc == 27
KeyBackspace == 127
KeyRune == 1000
KeyUnknown == 1001
KeyLeft == 1002
KeyRight == 1003
KeyUp == 1004
KeyDown == 1005
KeyHome == 1006
KeyEnd == 1007
KeyDel == 1009
KeyPageUp == 1010
KeyPageDown == 1011
KeyShiftTab == 1027

EventKey == 0
EventResize == 1

\* Event{Type: EventKey, Key: k}: the Rune field keeps Go's zero value
KeyEvent(k) == [Type |-> EventKey, Key |-> k, Rune |-> 0]
\* Event{Type: EventKey, Key: KeyRune, Rune: r}
RuneEvent(r) == [Type |-> EventKey, Key |-> KeyRune, Rune |-> r]
\* Event{Type: EventResize}
ResizeEvent == [Type |-> EventResize, Key |-> 0, Rune |-> 0]

(***************************************************************************)
(* term.readEvents: decoding of the collected window                       *)
(***************************************************************************)
\* switch string(seq[i+1 : i+3]) of readEvents; a, b are the two runes
\* after the escape rune ('[' = 91, 'O' = 79)
Suffix2Key(a, b) ==
    CASE a = 91 /\ b = 65 -> KeyUp         \* "[A"
      [] a = 91 /\ b = 66 -> KeyDown       \* "[B"
      [] a = 91 /\ b = 67 -> KeyRight      \* "[C"
      [] a = 91 /\ b = 68 -> KeyLeft       \* "[D"
      [] a = 91 /\ b = 72 -> KeyHome       \* "[H"
      [] a = 91 /\ b = 70 -> KeyEnd        \* "[F"
      [] a = 91 /\ b = 90 -> KeyShiftTab   \* "[Z"
      [] a = 79 /\ b = 72 -> KeyHome       \* "OH"
      [] a = 79 /\ b = 70 -> KeyEnd        \* "OF"
      [] OTHER -> KeyUnknown

\* switch string(seq[i+1 : i+4]) of readEvents ('3' = 51, '~' = 126)
Suffix3Key(a, b, c) ==
    CASE a = 91 /\ b = 51 /\ c = 126 -> KeyDel        \* "[3~"
      [] a = 91 /\ b = 53 /\ c = 126 -> KeyPageUp     \* "[5~"
      [] a = 91 /\ b = 54 /\ c = 126 -> KeyPageDown   \* "[6~"
      [] OTHER -> KeyUnknown

\* seq and i are 0-based in the source: s[j] of the source is At(s, j)
At(s, j) == s[j + 1]
\* len(seq[i+1:])
Rest(s, j) == Len(s) - (j + 1)

\* the first arm: len(seq[i+1:]) >= 2 and the 2-rune suffix is recognized
Esc2Key(s, j) ==
    IF Rest(s, j) >= 2 THEN Suffix2Key(At(s, j + 1), At(s, j + 2)) ELSE KeyUnknown

\* the second arm: len(seq[i+1:]) >= 3 and the 3-rune suffix is recognized
Esc3Key(s, j) ==
    IF Rest(s, j) >= 3
    THEN Suffix3Key(At(s, j + 1), At(s, j + 2), At(s, j + 3))
    ELSE KeyUnknown

\* i = i + 4 after a recognized 2-rune suffix
Esc2Advance == 4
\* i = i + 5 after a recognized 3-rune suffix
Esc3Advance == 5

\* r < 27 || r == 127
IsControl(r) == r < 27 \/ r = 127

\* the 0-based positions j .. j+n-1 of the window
Positions(j, n) == [k \in 1..n |-> j + k - 1]

Emit(ev, src, adv) ==
    /\ events' = Append(events, ev)
    /\ srcs' = Append(srcs, src)
    /\ i' = i + adv
    /\ UNCHANGED <<seq, termVars, promptVars, sideVars>>

\* r == KeyEsc, 2-rune suffix recognized
DecodeEsc2 ==
    /\ i < Len(seq)
    /\ At(seq, i) = KeyEsc
    /\ Esc2Key(seq, i) # KeyUnknown
    /\ Emit(KeyEvent(Esc2Key(seq, i)), Positions(i, 3), Esc2Advance)

\* r == KeyEsc, no 2-rune suffix, 3-rune suffix recognized
DecodeEsc3 ==
    /\ i < Len(seq)
    /\ At(seq, i) = KeyEsc
    /\ Esc2Key(seq, i) = KeyUnknown
    /\ Esc3Key(seq, i) # KeyUnknown
    /\ Emit(KeyEvent(Esc3Key(seq, i)), Positions(i, 4), Esc3Advance)

\* r == KeyEsc, nothing recognized: r = rune(KeyEsc); goto normal
DecodeEscNormal ==
    /\ i < Len(seq)
    /\ At(seq, i) = KeyEsc
    /\ Esc2Key(seq, i) = KeyUnknown
    /\ Esc3Key(seq, i) = KeyUnknown
    /\ Emit(RuneEvent(KeyEsc), Positions(i, 1), 1)

\* r < 27 || r == 127
DecodeControl ==
    /\ i < Len(seq)
    /\ At(seq, i) # KeyEsc
    /\ IsControl(At(seq, i))
    /\ Emit(KeyEvent(At(seq, i)), Positions(i, 1), 1)

\* normal:
DecodeNormal ==
    /\ i < Len(seq)
    /\ At(seq, i) # KeyEsc
    /\ ~IsControl(At(seq, i))
    /\ Emit(RuneEvent(At(seq, i)), Positions(i, 1), 1)

\* the for i < len(seq) loop has ended
DecodeDone == i >= Len(seq)

(***************************************************************************)
(* term.Terminal: Start and Stop over the tty device                       *)
(*                                                                         *)
(* A mode (termios) is a record of four flag sets.  The character size is  *)
(* a two-bit field: CSIZE is the mask of both bits and CS8 sets both.      *)
(***************************************************************************)
CSIZE == {"CS_LO", "CS_HI"}
CS8 == {"CS_LO", "CS_HI"}

\* cloneMode: a copy of every field
cloneMode(mode) ==
    [Iflag |-> mode.Iflag, Oflag |-> mode.Oflag, Cflag |-> mode.Cflag, Lflag |-> mode.Lflag]

\* the raw mode Start derives from the clone of the original mode
RawMode(mode) ==
    LET m == cloneMode(mode) IN
    [Iflag |-> m.Iflag \ {"IGNBRK", "BRKINT", "PARMRK", "ISTRIP", "INLCR", "IGNCR",
                          "ICRNL", "IXON"},
     Oflag |-> m.Oflag \ {"OPOST"},
     Cflag |-> (m.Cflag \cup CS8) \ (CSIZE \cup {"PARENB"}),
     Lflag |-> m.Lflag \ {"ECHO", "ECHONL", "ICANON", "ISIG", "IEXTEN"}]

\* the widths windowSize can report
Widths == {2, 3}

\* the steps of Start at which a syscall can fail
StartFailures == {"openIn", "openOut", "fetchMode", "setMode", "windowSize"}

\* a Stop that hands setMode the mode Start modified instead of the snapshot
RestoredModeAliased ==
    IF originalMode = <<>> THEN <<>> ELSE <<RawMode(originalMode[1])>>

\* the mode Stop hands to setMode: t.originalMode
RestoredMode == originalMode

\* Start(), with `fail` the syscall that fails ("none": every syscall succeeds)
\* and w the width windowSize reports
Start(fail, w) ==
    /\ fail = "openIn" => tin = "nil"
    /\ fail = "openOut" => tout = "nil"
    /\ modeBeforeStart' = devMode
    /\ lastCall' = [op |-> "Start", err |-> fail]
    /\ startErr' = fail
    /\ IF tin = "nil" /\ fail = "openIn"
       THEN UNCHANGED <<devMode, tin, tout, inBuffer, running, originalMode, runesCh,
                        eventsCh, sigwinch, Width>>
       ELSE
         /\ tin' = "open"
         /\ inBuffer' = "tty"
         /\ IF tout = "nil" /\ fail = "openOut"
            THEN UNCHANGED <<devMode, tout, running, originalMode, runesCh, eventsCh,
                             sigwinch, Width>>
            ELSE
              /\ tout' = "open"
              /\ running' = TRUE
              /\ IF fail = "fetchMode"
                 THEN /\ originalMode' = <<>>
                      /\ UNCHANGED <<devMode, runesCh, eventsCh, sigwinch, Width>>
                 ELSE
                   /\ originalMode' = <<devMode>>
                   /\ IF fail = "setMode"
                      THEN UNCHANGED <<devMode, runesCh, eventsCh, sigwinch, Width>>
                      ELSE
                        /\ devMode' = RawMode(devMode)
                        /\ IF fail = "windowSize"
                           THEN /\ Width' = -1
                                /\ UNCHANGED <<runesCh, eventsCh, sigwinch>>
                           ELSE /\ Width' = w
                                /\ sigwinch' = "notify"
                                /\ runesCh' = "open"
                                /\ eventsCh' = "open"

\* close(t.runes); close(t.events) panic on a nil or closed channel
StopPanics == runesCh # "open" \/ eventsCh # "open"

\* Stop() when both channels can be closed
Stop ==
    /\ ~StopPanics
    /\ running' = FALSE
    /\ runesCh' = "closed"
    /\ eventsCh' = "closed"
    /\ sigwinch' = "default"
    \* setMode(t.out.Fd(), t.originalMode): a nil mode makes the ioctl fail
    /\ devMode' = IF RestoredMode = <<>> THEN devMode ELSE RestoredMode[1]
    /\ inBuffer' = "nop"
    /\ lastCall' = [op |-> "Stop", err |-> "none"]
    /\ UNCHANGED <<tin, tout, originalMode, Width, startErr, modeBeforeStart>>

\* Stop() when close() panics: only t.running = false has happened
StopPanic ==
    /\ StopPanics
    /\ running' = FALSE
    /\ lastCall' = [op |-> "Stop", err |-> "panic"]
    /\ UNCHANGED <<devMode, tin, tout, inBuffer, originalMode, runesCh, eventsCh,
                   sigwinch, Width, startErr, modeBeforeStart>>

\* the process has panicked: nothing runs any more
Crashed == lastCall.err = "panic"

TermStart ==
    /\ ~Crashed
    /\ \E fail \in StartFailures \cup {"none"}, w \in Widths : Start(fail, w)
    /\ UNCHANGED <<decodeVars, promptVars, sideVars>>

TermStop ==
    /\ ~Crashed
    /\ Stop
    /\ UNCHANGED <<decodeVars, promptVars, sideVars>>

TermStopPanic ==
    /\ ~Crashed
    /\ StopPanic
    /\ UNCHANGED <<decodeVars, promptVars, sideVars>>

(***************************************************************************)
(* Strings: UTF-8 and fmt                                                  *)
(***************************************************************************)
\* string(r) for a rune r: its UTF-8 encoding (1 to 3 bytes)
Utf8(r) ==
    IF r < 128 THEN <<r>>
    ELSE IF r < 2048 THEN <<192 + (r \div 64), 128 + (r % 64)>>
    ELSE <<224 + (r \div 4096), 128 + ((r \div 64) % 64), 128 + (r % 64)>>

\* the rune that starts at 0-based byte offset j of s and its width, as range
\* and utf8.DecodeRuneInString give it, for encodings of 1 and 2 bytes; any
\* other byte decodes to utf8.RuneError (U+FFFD, 65533) with width 1
DecodeRune(s, j) ==
    LET b == At(s, j) IN
    IF b < 128 THEN [r |-> b, size |-> 1]
    ELSE IF b >= 194 /\ b <= 223 /\ j + 1 < Len(s)
            /\ At(s, j + 1) >= 128 /\ At(s, j + 1) <= 191
         THEN [r |-> (b - 192) * 64 + (At(s, j + 1) - 128), size |-> 2]
         ELSE [r |-> 65533, size |-> 1]

RECURSIVE RunesFrom(_, _)
RunesFrom(s, j) ==
    IF j >= Len(s) THEN <<>>
    ELSE LET d == DecodeRune(s, j) IN <<d.r>> \o RunesFrom(s, j + d.size)

\* []rune(s)
Runes(s) == RunesFrom(s, 0)

RECURSIVE Itoa(_)
\* %d of a non-negative int ('0' = 48)
Itoa(n) == IF n < 10 THEN <<48 + n>> ELSE Itoa(n \div 10) \o <<48 + (n % 10)>>

\* strings.Repeat(" ", n)
Blanks(n) == [k \in 1..n |-> 32]

RECURSIVE FmtFrom(_, _)
\* fmt.Fprintf(t.out, f) with no operands, from byte offset j: a '%' (37) at
\* the end gives "%!(NOVERB)", "%%" gives "%", and '%' before any other rune
\* c gives "%!c(MISSING)".  (Flags, widths and precisions between '%' and the
\* verb are not modelled: the strings of this model hold none.)
FmtFrom(f, j) ==
    IF j >= Len(f) THEN <<>>
    ELSE IF At(f, j) # 37 THEN <<At(f, j)>> \o FmtFrom(f, j + 1)
    ELSE IF j + 1 >= Len(f)
         THEN <<37, 33, 40, 78, 79, 86, 69, 82, 66, 41>>
         ELSE LET d == DecodeRune(f, j + 1) IN
              IF d.r = 37
              THEN <<37>> \o FmtFrom(f, j + 2)
              ELSE <<37, 33>> \o Utf8(d.r) \o <<40, 77, 73, 83, 83, 73, 78, 71, 41>>
                   \o FmtFrom(f, j + 1 + d.size)

\* what t.Puts(f) writes
Puts(f) == FmtFrom(f, 0)

\* what t.SetCursorColumn(x) writes: Puts("\x1b[%dG", x+1)
SetCursorColumn(x) == <<27, 91>> \o Itoa(x + 1) \o <<71>>

\* what t.Clear() writes: "\x1b[H\x1b[J"
Clear == <<27, 91, 72, 27, 91, 74>>

\* "\x1b[?25h"
termShowCursor == <<27, 91, 63, 50, 53, 104>>

(***************************************************************************)
(* term: colors                                                            *)
(***************************************************************************)
\* the first const block: ColorBlack = iota (0) .. ColorLightGray (7), ColorDefault (8)
ColorBlack == 0
ColorLightGray == 7
ColorDefault == 8
\* the second const block: ColorGray = iota + 9 (9) .. ColorWhite (16)
ColorGray == 9
ColorWhite == 16

\* the Color values the package declares
DeclaredColors == ColorBlack..ColorWhite

\* setColor(c, isBg): the brightValue and the code it hands to Puts
setColor(c, isBg) ==
    LET bright == c > 8 /\ c <= 16
        c1 == IF bright THEN c - 8 ELSE c
    IN [brightValue |-> IF bright THEN 1 ELSE 0,
        code |-> IF isBg THEN c1 + 40 ELSE c1 + 30]

\* what Puts(termSetColor, b, c) writes: "\x1b[%d;%dm"
PutsSetColor(b, c) == <<27, 91>> \o Itoa(b) \o <<59>> \o Itoa(c) \o <<109>>

\* the write of setColor(c, isBg)
SetColorWrite(c, isBg) ==
    LET s == setColor(c, isBg) IN PutsSetColor(s.brightValue, s.code)

(***************************************************************************)
(* prompt: history                                                         *)
(***************************************************************************)
\* AppendHistory(line)
AppendHistory(h, l) == Append(h, l)

RECURSIVE History(_)
\* History(): strings.Join(p.history, "\n")
History(h) ==
    IF h = <<>> THEN <<>>
    ELSE IF Len(h) = 1 THEN h[1]
    ELSE h[1] \o <<10>> \o History(Tail(h))

RECURSIVE LoadFrom(_, _, _, _)
\* the loop of LoadHistory from byte offset j of the text, with h the history
\* and buf the buffer so far.  `for r := range history` has one range variable,
\* so r is the byte offset of each rune, not the rune: r == '\n' tests the
\* offset against 10 and string(r) is the UTF-8 encoding of the offset.  What
\* buf holds when the loop ends is dropped.
LoadFrom(text, j, h, buf) ==
    IF j >= Len(text) THEN h
    ELSE LoadFrom(text, j + DecodeRune(text, j).size,
                  IF j = 10 THEN Append(h, buf) ELSE h,
                  (IF j = 10 THEN <<>> ELSE buf) \o Utf8(j))

\* LoadHistory(text): the history it leaves, from the history h
LoadHistory(h, text) == LoadFrom(text, 0, h, <<>>)

\* no call has changed the history yet
NoHistCall == [op |-> "none", arg |-> <<>>]

(***************************************************************************)
(* prompt: promptState                                                     *)
(***************************************************************************)
ErrorPromptAborted == "Prompt aborted"
ErrorPromptEnded == "Prompt ended"
NoError == "nil"

\* the line Render shows: s.line, or s.p.history[s.historyIndex]
Effective(l, hi) == IF hi = -1 THEN l ELSE history[hi + 1]

\* Render(): the four writes
Render(l, hi) ==
    << SetCursorColumn(0),
       Puts(Blanks(Width)),
       SetCursorColumn(0),
       Puts(prompt \o Effective(l, hi)) >>

RECURSIVE OptionWrites(_)
OptionWrites(opts) ==
    IF opts = <<>> THEN <<>>
    ELSE << Puts(Head(opts) \o <<10>>), SetCursorColumn(0) >> \o OptionWrites(Tail(opts))

\* RenderCompletionOptions(): the writes
RenderCompletionOptions(opts) ==
    << Puts(<<10>>), SetCursorColumn(0) >> \o OptionWrites(opts)

\* a MaybeUseHistory that leaves browsing without copying the snapshot
MaybeUseHistoryKeepsLine(l, hi) == [line |-> l, historyIndex |-> -1]

\* MaybeUseHistory(): the line and the index it leaves
MaybeUseHistory(l, hi) ==
    IF hi # -1 THEN [line |-> history[hi + 1], historyIndex |-> -1]
    ELSE [line |-> l, historyIndex |-> hi]

\* a HistoryPrevious that steps past the oldest entry
HistoryPreviousPastOldest(hi) ==
    IF hi = -1
    THEN (IF Len(history) > 0 THEN Len(history) - 1 ELSE hi)
    ELSE hi - 1

\* HistoryPrevious(): the index it leaves
HistoryPrevious(hi) ==
    IF hi = -1
    THEN (IF Len(history) > 0 THEN Len(history) - 1 ELSE hi)
    ELSE (IF hi > 0 THEN hi - 1 ELSE hi)

\* HistoryNext(): the index it leaves
HistoryNext(hi) ==
    IF hi = Len(history) - 1 \/ hi = -1 THEN -1 ELSE hi + 1

RECURSIVE ScanOption(_, _, _)
\* the inner loop of CompleteSuggest, `for i, c := range option`, from byte
\* offset j of option: the bestOption it leaves, or a panic when
\* []rune(bestOption)[i] indexes past the runes of bestOption
ScanOption(best, option, j) ==
    IF j >= Len(option) THEN [panic |-> FALSE, best |-> best]
    ELSE IF j >= Len(best) THEN [panic |-> FALSE, best |-> best]
    ELSE IF j >= Len(Runes(best)) THEN [panic |-> TRUE, best |-> best]
    ELSE LET d == DecodeRune(option, j) IN
         IF d.r # At(Runes(best), j)
         THEN [panic |-> FALSE, best |-> SubSeq(option, 1, j)]
         ELSE ScanOption(best, option, j + d.size)

RECURSIVE CommonRootFrom(_, _)
\* the outer loop, `for _, option := range s.completionOptions[1:]`
CommonRootFrom(best, rest) ==
    IF rest = <<>> THEN [panic |-> FALSE, best |-> best]
    ELSE LET r == ScanOption(best, Head(rest), 0) IN
         IF r.panic THEN r ELSE CommonRootFrom(r.best, Tail(rest))

\* "Find the common root": bestOption after both loops
CommonRoot(opts) == CommonRootFrom(Head(opts), Tail(opts))

(***************************************************************************)
(* Bounds and inputs of the line editor                                    *)
(***************************************************************************)
\* the longest line typed, in bytes
MaxLine == 2
\* the most history entries
MaxHist == 3
\* the most candidates the completion function returns
MaxCands == 2

\* the prompts: "$ "
Prompts == {<<36, 32>>}
\* the runes typed: 'a', 'é'
EditorRunes == {97, 233}
\* keys the loop has no branch for: Ctrl-A, Left
OtherKeys == {1, KeyLeft}
\* the k-th line committed earlier: "a", "%b", "" (Enter on an empty line), "a", ...
HistLine(k) == IF k % 3 = 1 THEN <<97>> ELSE IF k % 3 = 2 THEN <<37, 98>> ELSE <<>>
\* candidate strings: "a", "ab", "aa", "éa"
Words == {<<97>>, <<97, 98>>, <<97, 97>>, <<195, 169, 97>>}

RECURSIVE HistoriesOf(_)
\* the histories n calls of AppendHistory build from the empty history
HistoriesOf(n) ==
    IF n = 0 THEN {<<>>}
    ELSE {AppendHistory(h, HistLine(n)) : h \in HistoriesOf(n - 1)}

Histories == UNION {HistoriesOf(n) : n \in 0..MaxHist}

\* what the completion function can return
CompletionResults == UNION {[1..n -> Words] : n \in 0..MaxCands}

(***************************************************************************)
(* prompt.Prompt(): one interactive read                                   *)
(***************************************************************************)
NoEvent == [Type |-> -1, Key |-> 0, Rune |-> 0]

\* the event loop handled ev and goes on to the next event
Handled(ev, l, hi, co, o, fc) ==
    /\ lastEv' = ev
    /\ line' = l
    /\ historyIndex' = hi
    /\ completionOptions' = co
    /\ out' = o
    /\ fnCall' = fc
    /\ UNCHANGED <<pc, history, histCall, hasCompletionFn, prompt, ret, termVars, decodeVars,
                   sideVars>>

\* a return of Prompt() that records the line in the history itself
ReturnedAppendsHistory(ev, l, hi, o, r) ==
    /\ lastEv' = ev
    /\ line' = l
    /\ historyIndex' = hi
    /\ out' = o \o <<Puts(termShowCursor)>>
    /\ ret' = r
    /\ pc' = "done"
    /\ fnCall' = <<>>
    /\ Stop
    /\ history' = AppendHistory(history, l)
    /\ UNCHANGED <<histCall, hasCompletionFn, prompt, completionOptions, decodeVars,
                   sideVars>>

\* Prompt() returned r; the deferred p.terminal.Stop() has run
Returned(ev, l, hi, o, r) ==
    /\ lastEv' = ev
    /\ line' = l
    /\ historyIndex' = hi
    /\ out' = o \o <<Puts(termShowCursor)>>
    /\ ret' = r
    /\ pc' = "done"
    /\ fnCall' = <<>>
    /\ Stop
    /\ UNCHANGED <<history, histCall, hasCompletionFn, prompt, completionOptions, decodeVars,
                   sideVars>>

\* ev := <-p.terminal.Events() delivers an event
Receiving == pc = "loop" /\ eventsCh = "open"

\* p.terminal.Start(); defer p.terminal.Stop(); p.terminal.Puts(prompt);
\* state := promptState{...}.  The error of Start is not looked at.
PromptCall ==
    /\ pc = "idle"
    /\ \E fail \in StartFailures \cup {"none"}, w \in Widths : Start(fail, w)
    /\ \E p \in Prompts : prompt' = p /\ out' = IF tout' = "open" THEN <<Puts(p)>> ELSE <<>>
    /\ line' = <<>>
    /\ historyIndex' = -1
    /\ completionOptions' = <<>>
    /\ pc' = "loop"
    /\ UNCHANGED <<history, histCall, hasCompletionFn, ret, lastEv, fnCall, decodeVars,
                   sideVars>>

\* t.events is closed: the receive yields a nil *Event, ev.Type panics and the
\* deferred Stop panics in close()
PromptRecvClosed ==
    /\ pc = "loop"
    /\ eventsCh = "closed"
    /\ StopPanic
    /\ pc' = "panic"
    /\ UNCHANGED <<history, histCall, hasCompletionFn, prompt, line, historyIndex,
                   completionOptions, ret, out, lastEv, fnCall, decodeVars, sideVars>>

\* an EventResize: readEvents has set t.Width; the loop ignores the event
PromptResize ==
    /\ Receiving
    /\ \E w \in Widths : Width' = w
    /\ lastEv' = ResizeEvent
    /\ out' = <<>>
    /\ fnCall' = <<>>
    /\ UNCHANGED <<devMode, tin, tout, inBuffer, running, originalMode, runesCh, eventsCh,
                   sigwinch, lastCall, startErr, modeBeforeStart>>
    /\ UNCHANGED <<pc, history, histCall, hasCompletionFn, prompt, line, historyIndex,
                   completionOptions, ret, decodeVars, sideVars>>

\* readRunes: t.inBuffer.ReadRune() fails while t.running: panic(err) in that
\* goroutine ends the process; no deferred call of Prompt() runs
ReadRuneFails ==
    /\ Receiving
    /\ running
    /\ lastCall' = [op |-> "readRunes", err |-> "panic"]
    /\ pc' = "panic"
    /\ UNCHANGED <<devMode, tin, tout, inBuffer, running, originalMode, runesCh, eventsCh,
                   sigwinch, Width, startErr, modeBeforeStart>>
    /\ UNCHANGED <<history, histCall, hasCompletionFn, prompt, line, historyIndex,
                   completionOptions, ret, out, lastEv, fnCall, decodeVars, sideVars>>

\* readEvents on a SIGWINCH whose windowSize fails: t.Stop(); panic(err).  The
\* close(t.events) of that Stop wakes the receive of Prompt() with a nil event;
\* the panic that follows there races with the rest of Stop, so the process can
\* end before (reached = FALSE) or after (reached = TRUE) Stop's setMode
ResizeFails ==
    /\ Receiving
    /\ Width' = -1
    /\ running' = FALSE
    /\ runesCh' = "closed"
    /\ eventsCh' = "closed"
    /\ \E reached \in BOOLEAN :
         /\ sigwinch' = IF reached THEN "default" ELSE sigwinch
         /\ out' = IF reached THEN <<Puts(termShowCursor)>> ELSE <<>>
         /\ devMode' = IF reached /\ RestoredMode # <<>> THEN RestoredMode[1] ELSE devMode
         /\ inBuffer' = IF reached THEN "nop" ELSE inBuffer
    /\ lastCall' = [op |-> "readEvents", err |-> "panic"]
    /\ pc' = "panic"
    /\ UNCHANGED <<tin, tout, originalMode, startErr, modeBeforeStart>>
    /\ UNCHANGED <<history, histCall, hasCompletionFn, prompt, line, historyIndex,
                   completionOptions, ret, lastEv, fnCall, decodeVars, sideVars>>

\* a Ctrl-C that returns the line typed so far with the error
PromptCtrlCReturnsLine ==
    /\ Receiving
    /\ Returned(KeyEvent(KeyCtrlC), line, historyIndex, <<>>,
                [line |-> line, err |-> ErrorPromptAborted])

\* ev.Key == term.KeyCtrlC
PromptCtrlC ==
    /\ Receiving
    /\ Returned(KeyEvent(KeyCtrlC), line, historyIndex, <<>>,
                [line |-> <<>>, err |-> ErrorPromptAborted])

\* ev.Key == term.KeyCtrlD
PromptCtrlD ==
    /\ Receiving
    /\ Returned(KeyEvent(KeyCtrlD), line, historyIndex, <<>>,
                [line |-> <<>>, err |-> ErrorPromptEnded])

\* ev.Key == term.KeyCr
PromptEnter ==
    /\ Receiving
    /\ LET m == MaybeUseHistory(line, historyIndex) IN
       Returned(KeyEvent(KeyCr), m.line, m.historyIndex,
                <<Puts(<<10>>), SetCursorColumn(0)>>, [line |-> m.line, err |-> NoError])

\* line[:len(line)-1]
CutLast(l) == SubSeq(l, 1, Len(l) - 1)

\* Edit(cb), given cb's result for the line MaybeUseHistory leaves
Edit(ev, newLine) ==
    Handled(ev, newLine, -1, <<>>, Render(newLine, -1), <<>>)

\* ev.Key == term.KeyBackspace
PromptBackspace ==
    /\ Receiving
    /\ LET m == MaybeUseHistory(line, historyIndex) IN
       IF Len(m.line) > 0
       THEN Edit(KeyEvent(KeyBackspace), CutLast(m.line))
       ELSE Handled(KeyEvent(KeyBackspace), m.line, m.historyIndex, completionOptions,
                    <<>>, <<>>)

\* ev.Key == term.KeyUp
PromptUp ==
    /\ Receiving
    /\ LET hi == HistoryPrevious(historyIndex) IN
       Handled(KeyEvent(KeyUp), line, hi, completionOptions, Render(line, hi), <<>>)

\* ev.Key == term.KeyDown
PromptDown ==
    /\ Receiving
    /\ LET hi == HistoryNext(historyIndex) IN
       Handled(KeyEvent(KeyDown), line, hi, completionOptions, Render(line, hi), <<>>)

\* ev.Key == term.KeyCtrlU
PromptCtrlU ==
    /\ Receiving
    /\ Edit(KeyEvent(KeyCtrlU), <<>>)

\* ev.Key == term.KeyCtrlL
PromptCtrlL ==
    /\ Receiving
    /\ Handled(KeyEvent(KeyCtrlL), line, historyIndex, completionOptions,
               <<Clear>> \o Render(line, historyIndex), <<>>)

\* ev.Key == term.KeyRune
PromptRune ==
    /\ Receiving
    /\ \E r \in EditorRunes :
         LET m == MaybeUseHistory(line, historyIndex) IN
         /\ Len(m.line) + Len(Utf8(r)) <= MaxLine
         /\ Edit(RuneEvent(r), m.line \o Utf8(r))

\* any other key: the empty else branch
PromptOtherKey ==
    /\ Receiving
    /\ \E k \in OtherKeys :
         Handled(KeyEvent(k), line, historyIndex, completionOptions, <<>>, <<>>)

\* CompleteSuggest(): s.p.completionFn == nil
TabNoFn ==
    /\ Receiving
    /\ ~hasCompletionFn
    /\ Handled(KeyEvent(KeyTab), line, historyIndex, completionOptions, <<>>, <<>>)

\* a CompleteSuggest that drops the cached options once it has shown them
TabCachedDropsOptions ==
    /\ Receiving
    /\ hasCompletionFn
    /\ completionOptions # <<>>
    /\ Handled(KeyEvent(KeyTab), line, historyIndex, <<>>,
               RenderCompletionOptions(completionOptions) \o Render(line, historyIndex),
               <<>>)

\* CompleteSuggest(): s.completionOptions != nil
TabCached ==
    /\ Receiving
    /\ hasCompletionFn
    /\ completionOptions # <<>>
    /\ Handled(KeyEvent(KeyTab), line, historyIndex, completionOptions,
               RenderCompletionOptions(completionOptions) \o Render(line, historyIndex),
               <<>>)

\* the argument CompleteSuggest passes to the completion function
CompletionArg == line

\* CompleteSuggest(): the completion function returned nothing
TabNoOptions ==
    /\ Receiving
    /\ hasCompletionFn
    /\ completionOptions = <<>>
    /\ Handled(KeyEvent(KeyTab), line, historyIndex, <<>>, <<>>,
               <<[arg |-> CompletionArg, ret |-> <<>>]>>)

\* a CompleteSuggest that keeps the options cached only if the line changed
KeptOptionsWhenChanged(opts, l, best) == IF l # best THEN opts ELSE <<>>

\* the options CompleteSuggest keeps cached: none if the line changed
KeptOptions(opts, l, best) == IF l # best THEN <<>> ELSE opts

\* a CompleteSuggest that shows the options whenever there is one
ShowsOptionsAny(opts) == Len(opts) >= 1

\* whether CompleteSuggest shows the options right away
ShowsOptions(opts) == Len(opts) > 1

\* CompleteSuggest(): the completion function returned opts
TabComplete ==
    /\ Receiving
    /\ hasCompletionFn
    /\ completionOptions = <<>>
    /\ \E opts \in CompletionResults \ {<<>>} :
         LET m == MaybeUseHistory(line, historyIndex)
             root == CommonRoot(opts)
         IN
         /\ ~root.panic
         /\ Handled(KeyEvent(KeyTab), root.best, m.historyIndex,
                    KeptOptions(opts, m.line, root.best),
                    (IF ShowsOptions(opts) THEN RenderCompletionOptions(opts) ELSE <<>>)
                        \o Render(root.best, m.historyIndex),
                    <<[arg |-> CompletionArg, ret |-> opts]>>)

\* CompleteSuggest(): []rune(bestOption)[i] is out of range; the deferred Stop
\* runs and the panic ends the process
TabPanic ==
    /\ Receiving
    /\ hasCompletionFn
    /\ completionOptions = <<>>
    /\ \E opts \in CompletionResults \ {<<>>} :
         LET m == MaybeUseHistory(line, historyIndex) IN
         /\ CommonRoot(opts).panic
         /\ lastEv' = KeyEvent(KeyTab)
         /\ line' = m.line
         /\ historyIndex' = m.historyIndex
         /\ completionOptions' = opts
         /\ out' = <<Puts(termShowCursor)>>
         /\ fnCall' = <<[arg |-> CompletionArg, ret |-> opts]>>
         /\ pc' = "panic"
         /\ Stop
         /\ UNCHANGED <<history, histCall, hasCompletionFn, prompt, ret, decodeVars, sideVars>>

(***************************************************************************)
(* Bounds and inputs                                                       *)
(***************************************************************************)
\* the most keystrokes whose bytes one collection window holds
MaxKeys == 3
\* what one keystroke sends: Ctrl-C, Esc, 'A', '[', Backspace, and the
\* sequences of Up, Down, Right, Left ("\x1b[A".."\x1b[D") and Delete ("\x1b[3~")
Keystrokes ==
    { <<3>>, <<27>>, <<65>>, <<91>>, <<127>>,
      <<27, 91, 65>>, <<27, 91, 66>>, <<27, 91, 67>>, <<27, 91, 68>>,
      <<27, 91, 51, 126>> }

RECURSIVE Flatten(_)
Flatten(ss) == IF ss = <<>> THEN <<>> ELSE Head(ss) \o Flatten(Tail(ss))

\* the windows: the bytes of 1..MaxKeys keystrokes, in order
Windows == {Flatten(ks) : ks \in UNION {[1..n -> Keystrokes] : n \in 1..MaxKeys}}

\* a tty in its usual cooked mode
CookedMode ==
    [Iflag |-> {"ICRNL", "IXON"}, Oflag |-> {"OPOST"}, Cflag |-> CS8,
     Lflag |-> {"ECHO", "ICANON", "ISIG", "IEXTEN"}]

\* the modes the device can be in when a program first starts a session
DeviceModes ==
    [Iflag : SUBSET {"ICRNL"}, Oflag : SUBSET {"OPOST"},
     Cflag : {CS8, CS8 \cup {"PARENB"}, {"CS_HI"}}, Lflag : SUBSET {"ECHO", "ICANON"}]

\* a Terminal on which Start was never called, over a device in mode m
FreshTerminal(m) ==
    /\ devMode = m
    /\ tin = "nil"
    /\ tout = "nil"
    /\ inBuffer = "nil"
    /\ running = FALSE
    /\ originalMode = <<>>
    /\ runesCh = "nil"
    /\ eventsCh = "nil"
    /\ sigwinch = "default"
    /\ Width = 0
    /\ lastCall = [op |-> "none", err |-> "none"]
    /\ startErr = "never"
    /\ modeBeforeStart = m

\* a Terminal after one Start and Stop over a device in mode m
StoppedTerminal(m) ==
    /\ devMode = m
    /\ tin = "open"
    /\ tout = "open"
    /\ inBuffer = "nop"
    /\ running = FALSE
    /\ originalMode = <<m>>
    /\ runesCh = "closed"
    /\ eventsCh = "closed"
    /\ sigwinch = "default"
    /\ Width \in Widths
    /\ lastCall = [op |-> "none", err |-> "none"]
    /\ startErr = "never"
    /\ modeBeforeStart = m

\* no Prompt() call yet, history h
IdlePrompt(h) ==
    /\ pc = "idle"
    /\ history = h
    /\ hasCompletionFn \in BOOLEAN
    /\ prompt = <<>>
    /\ line = <<>>
    /\ historyIndex = -1
    /\ completionOptions = <<>>
    /\ ret = [line |-> <<>>, err |-> NoError]
    /\ out = <<>>
    /\ lastEv = NoEvent
    /\ fnCall = <<>>
    /\ histCall = NoHistCall

\* no color set, no session started
IdleSide ==
    /\ colors = [fg |-> -1, bg |-> -1]
    /\ gen = 0
    /\ chans = <<>>
    /\ readers = <<>>
    /\ decoders = <<>>
    /\ devInput = <<>>
    /\ fed = <<>>
    /\ delivered = <<>>
    /\ sigCount = [got |-> 0, lost |-> 0]

\* no window being decoded
IdleDecoder ==
    /\ seq = <<>>
    /\ i = 0
    /\ events = <<>>
    /\ srcs = <<>>

(***************************************************************************)
(* Specification of the decode loop over one collected window              *)
(***************************************************************************)
InitDecode ==
    /\ seq \in Windows
    /\ i = 0
    /\ events = <<>>
    /\ srcs = <<>>
    /\ FreshTerminal(CookedMode)
    /\ IdlePrompt(<<>>)
    /\ hasCompletionFn = FALSE
    /\ IdleSide

NextDecode ==
    \/ DecodeEsc2
    \/ DecodeEsc3
    \/ DecodeEscNormal
    \/ DecodeControl
    \/ DecodeNormal

SpecDecode == InitDecode /\ [][NextDecode]_vars

(***************************************************************************)
(* Specification of Start and Stop calls on one Terminal                   *)
(***************************************************************************)
InitTerm ==
    /\ \E m \in DeviceModes : FreshTerminal(m)
    /\ IdleDecoder
    /\ IdlePrompt(<<>>)
    /\ hasCompletionFn = FALSE
    /\ IdleSide

NextTerm ==
    \/ TermStart
    \/ TermStop
    \/ TermStopPanic

SpecTerm == InitTerm /\ [][NextTerm]_vars

(***************************************************************************)
(* Specification of one Prompt() call                                      *)
(***************************************************************************)
InitPrompt ==
    /\ \E h \in Histories : IdlePrompt(h)
    /\ FreshTerminal(CookedMode) \/ StoppedTerminal(CookedMode)
    /\ IdleDecoder
    /\ IdleSide

NextPrompt ==
    \/ PromptCall
    \/ PromptRecvClosed
    \/ PromptResize
    \/ ReadRuneFails
    \/ ResizeFails
    \/ PromptCtrlC
    \/ PromptCtrlD
    \/ PromptEnter
    \/ PromptBackspace
    \/ PromptUp
    \/ PromptDown
    \/ PromptCtrlU
    \/ PromptCtrlL
    \/ PromptRune
    \/ PromptOtherKey
    \/ TabNoFn
    \/ TabCached
    \/ TabNoOptions
    \/ TabComplete
    \/ TabPanic

SpecPrompt == InitPrompt /\ [][NextPrompt]_vars

(***************************************************************************)
(* Specification of the history of one Prompt: AppendHistory, LoadHistory  *)
(***************************************************************************)
\* the lines a history file holds: "ls", "echo \u00e9"
HistoryLines == {<<108, 115>>, <<101, 99, 104, 111, 32, 195, 169>>}

\* the texts History() writes for histories of up to MaxHist of these lines
HistoryTexts == {History(h) : h \in UNION {[1..n -> HistoryLines] : n \in 0..MaxHist}}

\* the rest of the Prompt and the Terminal are not touched by the history calls
HistoryFrame ==
    UNCHANGED <<pc, hasCompletionFn, prompt, line, historyIndex, completionOptions, ret,
                out, lastEv, fnCall, termVars, decodeVars, sideVars>>

\* p.AppendHistory(l)
HistAppend ==
    /\ Len(history) < MaxHist
    /\ \E l \in HistoryLines :
         /\ history' = AppendHistory(history, l)
         /\ histCall' = [op |-> "AppendHistory", arg |-> l]
    /\ HistoryFrame

\* p.LoadHistory(text)
HistLoad ==
    /\ \E text \in HistoryTexts :
         /\ Len(LoadHistory(history, text)) <= MaxHist
         /\ history' = LoadHistory(history, text)
         /\ histCall' = [op |-> "LoadHistory", arg |-> text]
    /\ HistoryFrame

InitHistory ==
    /\ IdlePrompt(<<>>)
    /\ hasCompletionFn = FALSE
    /\ FreshTerminal(CookedMode)
    /\ IdleDecoder
    /\ IdleSide

NextHistory ==
    \/ HistAppend
    \/ HistLoad

SpecHistory == InitHistory /\ [][NextHistory]_vars

(***************************************************************************)
(* Specification of SetFg and SetBg on a started Terminal                  *)
(***************************************************************************)
\* the Terminal right after its first Start succeeded, over a device that was
\* in mode m
StartedTerminal(m, w) ==
    /\ devMode = RawMode(m)
    /\ tin = "open"
    /\ tout = "open"
    /\ inBuffer = "tty"
    /\ running = TRUE
    /\ originalMode = <<m>>
    /\ runesCh = "open"
    /\ eventsCh = "open"
    /\ sigwinch = "notify"
    /\ Width = w
    /\ lastCall = [op |-> "Start", err |-> "none"]
    /\ startErr = "none"
    /\ modeBeforeStart = m

\* SetFg and SetBg touch nothing but t.out
ColorFrame ==
    UNCHANGED <<devMode, tin, tout, inBuffer, running, originalMode, runesCh, eventsCh,
                sigwinch, Width, startErr, modeBeforeStart, pc, history, histCall,
                hasCompletionFn, prompt, line, historyIndex, completionOptions, ret, lastEv,
                fnCall, decodeVars, sessVars>>

\* t.SetFg(c)
ColorSetFg ==
    /\ \E c \in DeclaredColors :
         /\ colors' = [colors EXCEPT !.fg = c]
         /\ out' = <<SetColorWrite(c, FALSE)>>
    /\ lastCall' = [op |-> "SetFg", err |-> "none"]
    /\ ColorFrame

\* t.SetBg(c)
ColorSetBg ==
    /\ \E c \in DeclaredColors :
         /\ colors' = [colors EXCEPT !.bg = c]
         /\ out' = <<SetColorWrite(c, TRUE)>>
    /\ lastCall' = [op |-> "SetBg", err |-> "none"]
    /\ ColorFrame

InitColor ==
    /\ \E w \in Widths : StartedTerminal(CookedMode, w)
    /\ IdlePrompt(<<>>)
    /\ hasCompletionFn = FALSE
    /\ IdleDecoder
    /\ IdleSide

NextColor ==
    \/ ColorSetFg
    \/ ColorSetBg

SpecColor == InitColor /\ [][NextColor]_vars

(***************************************************************************)
(* Specification of the sessions of one Terminal: Start, the readRunes and *)
(* readEvents goroutines it starts, SIGWINCH, the caller taking events,    *)
(* and Stop.                                                               *)
(*                                                                         *)
(* Each statement of a goroutine that touches a channel, t.running or the  *)
(* tty is one step.  Start and Stop are one step each: neither blocks.     *)
(* A panic in a goroutine ends the process.                                *)
(***************************************************************************)
\* the most Starts of one Terminal
MaxSessions == 2
\* the most runes the user types
MaxInput == 2
\* the most SIGWINCH the process gets
MaxResizes == 2

\* the runes typed: Ctrl-C, 'a'
SessionRunes == {3, 97}
\* what the user types over the run; a rune is read when a reader takes it
SessionInputs == [1..MaxInput -> SessionRunes]

\* make(chan rune, 500), make(chan *Event, 500), make(chan os.Signal, 1): the
\* model's runs never hold 500 in a queue
NewChans == [runes |-> <<>>, events |-> <<>>, sig |-> 0, closed |-> FALSE]

\* one event of the decode loop at 0-based position j of window s, and the
\* advance of i
DecodeAt(s, j) ==
    IF At(s, j) = KeyEsc
    THEN IF Esc2Key(s, j) # KeyUnknown
         THEN [ev |-> KeyEvent(Esc2Key(s, j)), adv |-> Esc2Advance]
         ELSE IF Esc3Key(s, j) # KeyUnknown
         THEN [ev |-> KeyEvent(Esc3Key(s, j)), adv |-> Esc3Advance]
         ELSE [ev |-> RuneEvent(KeyEsc), adv |-> 1]
    ELSE IF IsControl(At(s, j))
         THEN [ev |-> KeyEvent(At(s, j)), adv |-> 1]
         ELSE [ev |-> RuneEvent(At(s, j)), adv |-> 1]

\* a select that receives from t.sigwinch and leaves the signal in the channel
TakeSignalKeeps(c) == c

\* `case _, ok := <-t.sigwinch`: the buffered signal is taken
TakeSignal(c) == [c EXCEPT !.sig = 0]

\* a goroutine has panicked: the process has ended
SessCrashed ==
    \E g \in 1..gen : readers[g].pc = "panic" \/ decoders[g].pc = "panic"

\* a step of a goroutine that leaves the Terminal's fields alone
GoStep == ~SessCrashed /\ UNCHANGED <<decodeVars, promptVars, colorVars, termVars, gen>>

\* t.Start() succeeds: new channels, `go t.readRunes()`, `go t.readEvents()`
SessStart ==
    /\ ~SessCrashed
    /\ ~running
    /\ gen < MaxSessions
    /\ \E w \in Widths : Start("none", w)
    /\ gen' = gen + 1
    /\ chans' = Append(chans, NewChans)
    /\ readers' = Append(readers, [pc |-> "read", r |-> 0])
    /\ decoders' = Append(decoders, [pc |-> "select", seq |-> <<>>, i |-> 0, sel |-> gen + 1])
    /\ fed' = <<>>
    /\ delivered' = <<>>
    /\ UNCHANGED <<devInput, sigCount, decodeVars, promptVars, colorVars>>

\* t.Stop() of a running terminal
SessStop ==
    /\ ~SessCrashed
    /\ running
    /\ Stop
    /\ chans' = [chans EXCEPT ![gen].closed = TRUE]
    /\ UNCHANGED <<gen, readers, decoders, devInput, fed, delivered, sigCount,
                   decodeVars, promptVars, colorVars>>

\* the caller: ev := <-t.Events()
SessConsume ==
    /\ ~SessCrashed
    /\ running
    /\ chans[gen].events # <<>>
    /\ delivered' = Append(delivered, Head(chans[gen].events))
    /\ chans' = [chans EXCEPT ![gen].events = Tail(@)]
    /\ UNCHANGED <<gen, readers, decoders, devInput, fed, sigCount,
                   decodeVars, promptVars, colorVars, termVars>>

\* the window changes size: signal.Notify(t.sigwinch, SIGWINCH) sends without
\* blocking, so a signal that finds the channel full is dropped
SessSigwinch ==
    /\ ~SessCrashed
    /\ sigwinch = "notify"
    /\ sigCount.got < MaxResizes
    /\ IF chans[gen].sig = 0
       THEN /\ chans' = [chans EXCEPT ![gen].sig = 1]
            /\ sigCount' = [sigCount EXCEPT !.got = @ + 1]
       ELSE /\ chans' = chans
            /\ sigCount' = [sigCount EXCEPT !.got = @ + 1, !.lost = @ + 1]
    /\ UNCHANGED <<gen, readers, decoders, devInput, fed, delivered,
                   decodeVars, promptVars, colorVars, termVars>>

\* r, _, err := t.inBuffer.ReadRune(): the read on the tty returns the next
\* rune typed.  readRunes calls ReadRune when it starts and after a send that
\* did not panic, so t.inBuffer reads the tty at every call: Start has set it
\* and no Stop has run since t.running was tested.
ReaderRead(g) ==
    /\ readers[g].pc = "read"
    /\ devInput # <<>>
    /\ readers' = [readers EXCEPT ![g] = [pc |-> "check", r |-> Head(devInput)]]
    /\ devInput' = Tail(devInput)
    /\ fed' = IF running THEN Append(fed, Head(devInput)) ELSE fed
    /\ UNCHANGED <<chans, decoders, delivered, sigCount>>
    /\ GoStep

\* if !t.running { return }
ReaderCheck(g) ==
    /\ readers[g].pc = "check"
    /\ readers' = [readers EXCEPT ![g].pc = IF running THEN "send" ELSE "done"]
    /\ UNCHANGED <<chans, decoders, devInput, fed, delivered, sigCount>>
    /\ GoStep

\* t.runes <- r: a send on a closed channel panics
ReaderSend(g) ==
    /\ readers[g].pc = "send"
    /\ IF chans[gen].closed
       THEN /\ readers' = [readers EXCEPT ![g].pc = "panic"]
            /\ chans' = chans
       ELSE /\ readers' = [readers EXCEPT ![g].pc = "read"]
            /\ chans' = [chans EXCEPT ![gen].runes = Append(@, readers[g].r)]
    /\ UNCHANGED <<decoders, devInput, fed, delivered, sigCount>>
    /\ GoStep

\* the outer select takes a signal: windowSize succeeds, then
\* t.events <- &Event{Type: EventResize}
DecResize(g) ==
    /\ ~SessCrashed
    /\ decoders[g].pc = "select"
    /\ chans[decoders[g].sel].sig = 1
    /\ \E w \in Widths : Width' = w
    /\ LET taken == [chans EXCEPT ![decoders[g].sel] = TakeSignal(@)] IN
       IF chans[gen].closed
       THEN /\ decoders' = [decoders EXCEPT ![g].pc = "panic"]
            /\ chans' = taken
       ELSE /\ decoders' = [decoders EXCEPT ![g].sel = gen]
            /\ chans' = [taken EXCEPT ![gen].events = Append(@, ResizeEvent)]
    /\ UNCHANGED <<devMode, tin, tout, inBuffer, running, originalMode, runesCh, eventsCh,
                   sigwinch, lastCall, startErr, modeBeforeStart>>
    /\ UNCHANGED <<gen, readers, devInput, fed, delivered, sigCount, decodeVars, promptVars,
                   colorVars>>

\* the outer select takes a signal and windowSize fails: t.Stop(); panic(err)
DecResizeFails(g) ==
    /\ ~SessCrashed
    /\ decoders[g].pc = "select"
    /\ chans[decoders[g].sel].sig = 1
    /\ decoders' = [decoders EXCEPT ![g].pc = "panic"]
    /\ IF StopPanics
       THEN /\ StopPanic
            /\ chans' = [chans EXCEPT ![decoders[g].sel] = TakeSignal(@)]
       ELSE /\ Stop
            /\ chans' = [[chans EXCEPT ![decoders[g].sel] = TakeSignal(@)]
                            EXCEPT ![gen].closed = TRUE]
    /\ UNCHANGED <<gen, readers, devInput, fed, delivered, sigCount,
                   decodeVars, promptVars, colorVars>>

\* the outer select receives a rune: seq := []rune{r}
DecRecv(g) ==
    /\ decoders[g].pc = "select"
    /\ chans[decoders[g].sel].runes # <<>>
    /\ decoders' = [decoders EXCEPT ![g] =
                      [pc |-> "window", seq |-> <<Head(chans[decoders[g].sel].runes)>>,
                       i |-> 0, sel |-> @.sel]]
    /\ chans' = [chans EXCEPT ![decoders[g].sel].runes = Tail(@)]
    /\ UNCHANGED <<readers, devInput, fed, delivered, sigCount>>
    /\ GoStep

\* the outer select finds t.runes closed and empty: return
DecClosed(g) ==
    /\ decoders[g].pc = "select"
    /\ chans[decoders[g].sel].runes = <<>>
    /\ chans[decoders[g].sel].closed
    /\ decoders' = [decoders EXCEPT ![g].pc = "done"]
    /\ UNCHANGED <<chans, readers, devInput, fed, delivered, sigCount>>
    /\ GoStep

\* wait: `case r := <-t.runes` receives a rune within the 50 ms
DecCollect(g) ==
    /\ decoders[g].pc = "window"
    /\ chans[gen].runes # <<>>
    /\ decoders' = [decoders EXCEPT ![g].seq = Append(@, Head(chans[gen].runes))]
    /\ chans' = [chans EXCEPT ![gen].runes = Tail(@)]
    /\ UNCHANGED <<readers, devInput, fed, delivered, sigCount>>
    /\ GoStep

\* wait: `case r := <-t.runes` on the closed and empty channel yields the
\* zero rune, with no ok test, as often as the 50 ms allow (here: once)
DecCollectClosed(g) ==
    /\ decoders[g].pc = "window"
    /\ chans[gen].runes = <<>>
    /\ chans[gen].closed
    /\ \A k \in 1..Len(decoders[g].seq) : decoders[g].seq[k] # 0
    /\ decoders' = [decoders EXCEPT ![g].seq = Append(@, 0)]
    /\ UNCHANGED <<chans, readers, devInput, fed, delivered, sigCount>>
    /\ GoStep

\* wait: `case <-timeout`: break wait; i := 0
DecTimeout(g) ==
    /\ decoders[g].pc = "window"
    /\ decoders' = [decoders EXCEPT ![g].pc = "emit", ![g].i = 0]
    /\ UNCHANGED <<chans, readers, devInput, fed, delivered, sigCount>>
    /\ GoStep

\* one turn of `for i < len(seq)`: t.events <- the event at i; after the last
\* turn the goroutine is back at the outer select, on the channels t.runes
\* and t.sigwinch now name
DecEmit(g) ==
    /\ decoders[g].pc = "emit"
    /\ LET d == DecodeAt(decoders[g].seq, decoders[g].i) IN
       IF chans[gen].closed
       THEN /\ decoders' = [decoders EXCEPT ![g].pc = "panic"]
            /\ chans' = chans
       ELSE /\ decoders' = [decoders EXCEPT ![g] =
                   IF @.i + d.adv < Len(@.seq)
                   THEN [@ EXCEPT !.i = @ + d.adv]
                   ELSE [pc |-> "select", seq |-> <<>>, i |-> 0, sel |-> gen]]
            /\ chans' = [chans EXCEPT ![gen].events = Append(@, d.ev)]
    /\ UNCHANGED <<readers, devInput, fed, delivered, sigCount>>
    /\ GoStep

InitSession ==
    /\ FreshTerminal(CookedMode)
    /\ IdleDecoder
    /\ IdlePrompt(<<>>)
    /\ hasCompletionFn = FALSE
    /\ colors = [fg |-> -1, bg |-> -1]
    /\ gen = 0
    /\ chans = <<>>
    /\ readers = <<>>
    /\ decoders = <<>>
    /\ devInput \in SessionInputs
    /\ fed = <<>>
    /\ delivered = <<>>
    /\ sigCount = [got |-> 0, lost |-> 0]

NextSession ==
    \/ SessStart
    \/ SessStop
    \/ SessConsume
    \/ \E g \in 1..gen : ReaderRead(g)
    \/ \E g \in 1..gen : ReaderCheck(g)
    \/ \E g \in 1..gen : ReaderSend(g)
    \/ \E g \in 1..gen : DecRecv(g)
    \/ \E g \in 1..gen : DecClosed(g)
    \/ \E g \in 1..gen : DecCollect(g)
    \/ \E g \in 1..gen : DecCollectClosed(g)
    \/ \E g \in 1..gen : DecTimeout(g)
    \/ \E g \in 1..gen : DecEmit(g)

SpecSession == InitSession /\ [][NextSession]_vars

\* one session with the window changing size, from the first Start to Stop
InitResize ==
    /\ \E w \in Widths : StartedTerminal(CookedMode, w)
    /\ IdleDecoder
    /\ IdlePrompt(<<>>)
    /\ hasCompletionFn = FALSE
    /\ colors = [fg |-> -1, bg |-> -1]
    /\ gen = 1
    /\ chans = <<NewChans>>
    /\ readers = <<[pc |-> "read", r |-> 0]>>
    /\ decoders = <<[pc |-> "select", seq |-> <<>>, i |-> 0, sel |-> 1]>>
    /\ devInput \in SessionInputs
    /\ fed = <<>>
    /\ delivered = <<>>
    /\ sigCount = [got |-> 0, lost |-> 0]

NextResize ==
    \/ SessStop
    \/ SessConsume
    \/ SessSigwinch
    \/ ReaderRead(1)
    \/ ReaderCheck(1)
    \/ ReaderSend(1)
    \/ DecResize(1)
    \/ DecResizeFails(1)
    \/ DecRecv(1)
    \/ DecClosed(1)
    \/ DecCollect(1)
    \/ DecCollectClosed(1)
    \/ DecTimeout(1)
    \/ DecEmit(1)

SpecResize == InitResize /\ [][NextResize]_vars

(***************************************************************************)
(* Properties                                                              *)
(***************************************************************************)
\* the input positions the events account for, in the order of the events
Accounted == Flatten(srcs)

\* C1: when the decode loop has gone through a collected window, the events
\* it sent account for every input rune exactly once and in input order:
\* none is dropped, duplicated or reordered.
C1_EveryByteOnce ==
    DecodeDone => Accounted = [k \in 1..Len(seq) |-> k - 1]

\* C2: once Stop has completed after a Start that succeeded, the mode of the
\* device is the mode it had when that Start was entered.
C2_StopRestoresMode ==
    (lastCall = [op |-> "Stop", err |-> "none"] /\ startErr = "none")
        => devMode = modeBeforeStart

\* a Stop has completed after a successful Start that had changed the mode
C2_Witness ==
    /\ lastCall = [op |-> "Stop", err |-> "none"]
    /\ startErr = "none"
    /\ devMode = modeBeforeStart
    /\ RawMode(modeBeforeStart) # modeBeforeStart

\* the window holds "\x1b[A", "\x1b[B", "\x1b[C" or "\x1b[D" at position p
ArrowAt(p) ==
    /\ p + 2 < Len(seq)
    /\ At(seq, p) = 27
    /\ At(seq, p + 1) = 91
    /\ At(seq, p + 2) \in 65..68

\* Up, Down, Right, Left for 'A', 'B', 'C', 'D'
ArrowKey(b) ==
    CASE b = 65 -> KeyUp [] b = 66 -> KeyDown [] b = 67 -> KeyRight [] b = 68 -> KeyLeft

\* the events that stand for one of the positions p .. p+2
Covering(p) ==
    {k \in 1..Len(events) : \E j \in 1..Len(srcs[k]) : srcs[k][j] \in p..(p + 2)}

\* C3: every "\x1b[A", "\x1b[B", "\x1b[C", "\x1b[D" inside the collected
\* window yields exactly one event for its three runes, the key event Up,
\* Down, Right, Left, and no rune event for any of the three.
C3_ArrowsDecode ==
    DecodeDone =>
        \A p \in 0..(Len(seq) - 1) :
            ArrowAt(p) =>
                \E k \in 1..Len(events) :
                    /\ Covering(p) = {k}
                    /\ srcs[k] = Positions(p, 3)
                    /\ events[k] = KeyEvent(ArrowKey(At(seq, p + 2)))

\* C4: a window that holds the escape rune alone yields exactly one event, the
\* key event with key code Escape, not a printable-rune event.
C4_LoneEscapeIsEscapeKey ==
    (DecodeDone /\ seq = <<27>>) => events = <<KeyEvent(KeyEsc)>>

\* C5: Up from -1 goes to the last index of a non-empty history and stays at -1
\* on an empty one, Up above index 0 decrements, Up at index 0 stays; Down at
\* the last index or at -1 goes to -1, Down elsewhere increments; neither key
\* changes the live buffer.
C5_HistoryNavigation ==
    [][ /\ (pc' = "loop" /\ lastEv' = KeyEvent(KeyUp)) =>
            /\ historyIndex' =
                 IF historyIndex = -1
                 THEN (IF Len(history) > 0 THEN Len(history) - 1 ELSE -1)
                 ELSE (IF historyIndex > 0 THEN historyIndex - 1 ELSE 0)
            /\ line' = line
        /\ (pc' = "loop" /\ lastEv' = KeyEvent(KeyDown)) =>
            /\ historyIndex' =
                 IF historyIndex = Len(history) - 1 \/ historyIndex = -1
                 THEN -1
                 ELSE historyIndex + 1
            /\ line' = line
      ]_vars

\* with three history entries, a Down from the oldest entry has moved to index 1
C5_Witness ==
    /\ lastEv = KeyEvent(KeyDown)
    /\ Len(history) = 3
    /\ historyIndex = 1

\* p is a prefix of s
IsPrefix(p, s) == Len(p) <= Len(s) /\ SubSeq(s, 1, Len(p)) = p

\* the longest string that is a prefix of every option
LongestCommonPrefix(opts) ==
    LET first == opts[1]
        ns == {n \in 0..Len(first) :
                 \A k \in 1..Len(opts) : IsPrefix(SubSeq(first, 1, n), opts[k])}
    IN SubSeq(first, 1, CHOOSE n \in ns : \A m \in ns : m <= n)

\* C6: after a Tab whose completion function returned at least one candidate,
\* the live buffer is the longest common prefix of the candidates.
C6_LineIsCommonPrefix ==
    (pc = "loop" /\ fnCall # <<>> /\ fnCall[1].ret # <<>>)
        => line = LongestCommonPrefix(fnCall[1].ret)

\* the last event was a Tab that wrote a candidate list
ListWritten ==
    /\ lastEv = KeyEvent(KeyTab)
    /\ Len(out) >= 2
    /\ out[1] = <<10>>

\* the number of candidates that Tab wrote
WrittenCount == (Len(out) - 6) \div 2

\* C7 as stated: a Tab writes the candidate list only when the list holds more
\* than one candidate.
C7_ListOnlyWhenSeveral ==
    ListWritten => WrittenCount > 1

\* C7 amended: a Tab that calls the completion function writes the candidate
\* list only when the function returned more than one candidate, and writes no
\* list when it returned a single one; a Tab that finds a cached list writes
\* that list, whatever its length.
C7_ListOnlyWhenSeveralReturned ==
    (pc = "loop" /\ lastEv = KeyEvent(KeyTab))
        => /\ fnCall # <<>> =>
                /\ ListWritten => WrittenCount > 1
                /\ Len(fnCall[1].ret) = 1 => ~ListWritten
           /\ (fnCall = <<>> /\ hasCompletionFn) =>
                /\ ListWritten
                /\ WrittenCount = Len(completionOptions)

\* a Tab called the completion function, got two candidates and wrote both
C7_Witness ==
    /\ pc = "loop"
    /\ fnCall # <<>>
    /\ Len(fnCall[1].ret) = 2
    /\ ListWritten
    /\ WrittenCount = 2

\* C8: every render writes column-0 positioning, a run of blanks as wide as
\* the terminal, column-0 positioning and then prompt + effective line.
C8_RenderWrites ==
    (pc = "loop" /\ Len(out) >= 4)
        => SubSeq(out, Len(out) - 3, Len(out)) =
             << <<27, 91, 49, 71>>,
                [k \in 1..Width |-> 32],
                <<27, 91, 49, 71>>,
                prompt \o (IF historyIndex = -1 THEN line ELSE history[historyIndex + 1]) >>

\* C9: Enter ends the read and returns, with no error, the live buffer when
\* historyIndex is -1 and the history entry at historyIndex otherwise.
C9_EnterReturnsEffectiveLine ==
    [][ lastEv' = KeyEvent(KeyCr) =>
            /\ pc' = "done"
            /\ ret' = [line |-> IF historyIndex = -1 THEN line
                                ELSE history[historyIndex + 1],
                       err |-> "nil"]
      ]_vars

\* with no completion function, Enter returned "%b": a history entry that
\* cannot be typed, so the read ended while browsing
C9_Witness ==
    /\ pc = "done"
    /\ lastEv = KeyEvent(KeyCr)
    /\ ~hasCompletionFn
    /\ ret = [line |-> <<37, 98>>, err |-> "nil"]

\* C10: Ctrl-C ends the read with the Aborted error and Ctrl-D with the Ended
\* error; the returned line is empty and the history is unchanged.
C10_AbortAndEnd ==
    [][ /\ lastEv' = KeyEvent(KeyCtrlC) =>
            /\ pc' = "done"
            /\ ret' = [line |-> <<>>, err |-> "Prompt aborted"]
            /\ history' = history
        /\ lastEv' = KeyEvent(KeyCtrlD) =>
            /\ pc' = "done"
            /\ ret' = [line |-> <<>>, err |-> "Prompt ended"]
            /\ history' = history
      ]_vars

\* Ctrl-C ended a read that was browsing history with a non-empty live buffer
\* and cached completion candidates
C10_Witness ==
    /\ pc = "done"
    /\ lastEv = KeyEvent(KeyCtrlC)
    /\ ret.err = "Prompt aborted"
    /\ historyIndex # -1
    /\ line # <<>>
    /\ completionOptions # <<>>

RECURSIVE LinesOf(_, _)
\* the lines of text, cur being the bytes of the line read so far
LinesOf(text, cur) ==
    IF text = <<>> THEN <<cur>>
    ELSE IF Head(text) = 10 THEN <<cur>> \o LinesOf(Tail(text), <<>>)
    ELSE LinesOf(Tail(text), Append(cur, Head(text)))

\* text split at its newlines; the empty text, which History() writes for the
\* empty history, has no line
SplitLines(text) == IF text = <<>> THEN <<>> ELSE LinesOf(text, <<>>)

\* C11: after LoadHistory(text) the history is exactly the lines of text split
\* at newlines: earlier entries are gone, every line including the last is one
\* entry, no entry holds a newline; so loading what History() wrote restores
\* the entries.
C11_LoadHistoryReplaces ==
    histCall.op = "LoadHistory" => history = SplitLines(histCall.arg)

\* C12: Backspace erases the last character: handled right after a rune r was
\* typed, it leaves the buffer as it was before r, whatever the number of bytes
\* that encode r; on an empty buffer it leaves the buffer empty.
C12_BackspaceErasesLastRune ==
    [][ lastEv' = KeyEvent(KeyBackspace) =>
            /\ (lastEv.Type = EventKey /\ lastEv.Key = KeyRune)
                    => line' \o Utf8(lastEv.Rune) = line
            /\ (historyIndex = -1 /\ line = <<>>) => line' = <<>>
      ]_vars

\* C13: Stop is idempotent: a Stop called on a session that a Stop has already
\* stopped completes without fault and leaves the device mode and the session
\* state as the first Stop left them.
C13_StopIdempotent ==
    [][ (lastCall = [op |-> "Stop", err |-> "none"] /\ lastCall'.op = "Stop") =>
            /\ lastCall'.err = "none"
            /\ <<devMode, tin, tout, inBuffer, running, originalMode, runesCh, eventsCh,
                 sigwinch, Width>>' =
               <<devMode, tin, tout, inBuffer, running, originalMode, runesCh, eventsCh,
                 sigwinch, Width>>
      ]_vars

\* C14: when a step of Start fails, Start returns an error, the mode of the
\* device is the one it had when Start was entered and the session is not
\* marked as running.
C14_FailedStartLeavesNothing ==
    (lastCall.op = "Start" /\ lastCall.err # "none")
        => /\ devMode = modeBeforeStart
           /\ ~running

\* C15: a read whose Start failed ends by returning an error to its caller: it
\* neither waits for events nor crashes.
C15_FailedStartIsReturned ==
    startErr \in StartFailures
        => /\ pc = "done"
           /\ ret.err \notin {"nil", "Prompt aborted", "Prompt ended"}

\* C16: however a read ends after a Start that succeeded (a return after Enter,
\* Ctrl-C or Ctrl-D, or the end of the process after a failed read of the
\* device or a failed recomputation of the window size), the device is back in
\* the mode it had when Start was entered.
C16_ModeRestoredOnEveryExit ==
    (pc \in {"done", "panic"} /\ startErr = "none") => devMode = modeBeforeStart

\* the step handles a key that changes the buffer: a rune, Backspace or Ctrl-U
MutatingKeyHandled ==
    /\ pc' = "loop"
    /\ lastEv'.Type = EventKey
    /\ lastEv'.Key \in {KeyRune, KeyBackspace, KeyCtrlU}

\* the line shown before the step: the live buffer, or the entry browsed
EffectiveBefore == IF historyIndex = -1 THEN line ELSE history[historyIndex + 1]

\* the step has collapsed browsing and applied the key's change to the line e:
\* a rune is appended, Ctrl-U empties, Backspace shortens at the end
MutationApplied(e) ==
    /\ historyIndex' = -1
    /\ CASE lastEv'.Key = KeyRune -> line' = e \o Utf8(lastEv'.Rune)
         [] lastEv'.Key = KeyCtrlU -> line' = <<>>
         [] lastEv'.Key = KeyBackspace ->
                IF e = <<>> THEN line' = <<>> ELSE (IsPrefix(line', e) /\ line' # e)

\* the step has left no cached candidates and has issued a render
InvalidatedAndRendered ==
    /\ completionOptions' = <<>>
    /\ Len(out') = 4
    /\ out'[1] = <<27, 91, 49, 71>>
    /\ out'[3] = <<27, 91, 49, 71>>

\* C17: every buffer-mutating key, Backspace on an empty buffer included,
\* collapses browsing into the live buffer, applies its change, leaves no
\* cached candidates and issues a render.
C17_MutationInvalidatesAndRenders ==
    [][ MutatingKeyHandled =>
            /\ MutationApplied(EffectiveBefore)
            /\ InvalidatedAndRendered
      ]_vars

\* C18: when Tab invokes the completion function, the argument is the effective
\* line: the live buffer when historyIndex is -1, the history entry at
\* historyIndex when browsing.
C18_ProviderGetsEffectiveLine ==
    [][ (pc' = "loop" /\ lastEv' = KeyEvent(KeyTab) /\ fnCall' # <<>>)
            => fnCall'[1].arg = EffectiveBefore
      ]_vars

\* the step handles a Tab for which the completion function returned at least
\* one candidate
TabWithCandidates ==
    /\ pc' = "loop"
    /\ lastEv' = KeyEvent(KeyTab)
    /\ fnCall' # <<>>
    /\ fnCall'[1].ret # <<>>

\* C19 as stated: after a Tab for which the completion function returned at
\* least one candidate, the list is cached only if the buffer after the Tab
\* differs from the buffer before it; a Tab that leaves the buffer unchanged
\* caches no list.
C19_CachedOnlyWhenChanged ==
    [][ TabWithCandidates =>
            (line' = EffectiveBefore => completionOptions' = <<>>)
      ]_vars

\* C19 amended: after a Tab for which the completion function returned at
\* least one candidate, the returned list is cached exactly when the buffer
\* after the Tab equals the effective line before it; a Tab that changes the
\* buffer caches no list.
C19_CachedOnlyWhenUnchanged ==
    [][ TabWithCandidates =>
            completionOptions' = IF line' = EffectiveBefore THEN fnCall'[1].ret ELSE <<>>
      ]_vars

\* a Tab on the line "a" got the candidates "a" and "ab", left the line as it
\* was and cached both
C19_Witness ==
    /\ pc = "loop"
    /\ lastEv = KeyEvent(KeyTab)
    /\ fnCall = <<[arg |-> <<97>>, ret |-> << <<97>>, <<97, 98>> >>]>>
    /\ line = <<97>>
    /\ completionOptions = << <<97>>, <<97, 98>> >>

\* the writes are a newline, each of the candidates opts on a line of its own
\* at column 0, and then the four writes of a render
ListThenRender(o, opts) ==
    /\ Len(o) = 2 + 2 * Len(opts) + 4
    /\ o[1] = <<10>>
    /\ o[2] = <<27, 91, 49, 71>>
    /\ \A k \in 1..Len(opts) :
         /\ o[2 * k + 1] = opts[k] \o <<10>>
         /\ o[2 * k + 2] = <<27, 91, 49, 71>>
    /\ o[Len(o) - 3] = <<27, 91, 49, 71>>
    /\ Len(o[Len(o) - 2]) = Width
    /\ o[Len(o) - 1] = <<27, 91, 49, 71>>

UnrecognizedEscAt(p) ==
    /\ At(seq, p) = KeyEsc
    /\ Esc2Key(seq, p) = KeyUnknown
    /\ Esc3Key(seq, p) = KeyUnknown

\* C21: when the window holds an escape rune followed by no recognized suffix,
\* the decode loop sends exactly one event for the escape rune alone and then
\* accounts for every rune after it, once each and in order: none is dropped.
C21_UnrecognizedEscapeDegrades ==
    DecodeDone =>
        \A p \in 0..(Len(seq) - 1) :
            UnrecognizedEscAt(p) =>
                \E k \in 1..Len(events) :
                    /\ srcs[k] = <<p>>
                    /\ \A j \in 1..Len(events) : (j # k => srcs[j] # <<p>>)
                    /\ Flatten(SubSeq(srcs, k + 1, Len(srcs)))
                         = [q \in 1..(Len(seq) - 1 - p) |-> p + q]

\* the 8 base colors and the 8 bright colors, each in its declared order
BaseColors == 0..7
BrightColors == 9..16

\* the brightness flag and the color code the palette color c is to be written
\* with: a base color has flag 0 and its own offset, a bright color has flag 1
\* and the offset of its base counterpart (the n-th bright color pairs with the
\* n-th base color)
PaletteFlag(c) == IF c \in BrightColors THEN 1 ELSE 0
PaletteOffset(c) == IF c \in BrightColors THEN c - 9 ELSE c

\* the color last set is the palette color c, set by SetFg or by SetBg
LastColorSet(c) ==
    \/ lastCall.op = "SetFg" /\ colors.fg = c
    \/ lastCall.op = "SetBg" /\ colors.bg = c

\* C26: for each of the 16 palette colors, SetFg and SetBg write the
\* brightness flag 0 for a base color and 1 for a bright one, and the code 30
\* (foreground) or 40 (background) plus the offset 0..7 of the color or of its
\* base counterpart.
C26_PaletteCodes ==
    \A c \in BaseColors \cup BrightColors :
        LastColorSet(c) =>
            out = << <<27, 91>> \o Itoa(PaletteFlag(c)) \o <<59>>
                     \o Itoa((IF lastCall.op = "SetBg" THEN 40 ELSE 30) + PaletteOffset(c))
                     \o <<109>> >>

\* C27: at every point of a read, historyIndex is -1 or the index of an entry
\* of the history, and no step of the read, its return included, changes the
\* history.
C27_HistoryIndexValid ==
    /\ [](historyIndex = -1 \/ historyIndex \in 0..(Len(history) - 1))
    /\ [][history' = history]_vars

\* with a full history, Up was pressed until the oldest entry is shown
C27_Witness ==
    /\ pc = "loop"
    /\ lastEv = KeyEvent(KeyUp)
    /\ Len(history) = MaxHist
    /\ historyIndex = 0
    /\ out = Render(line, 0)

\* C28: every handled event that changes the effective line, Up and Down
\* included, leaves no cached candidate list.
C28_CacheFollowsEffectiveLine ==
    [][ (/\ pc = "loop"
         /\ pc' = "loop"
         /\ Effective(line', historyIndex') # Effective(line, historyIndex))
        => completionOptions' = <<>> ]_vars

\* the event the claims give for an input rune: a key event with the rune's
\* code below 27 and at 127, a rune event otherwise
KeyOrRune(r) == IF r < 27 \/ r = 127 THEN KeyEvent(r) ELSE RuneEvent(r)

\* the key events among evs, in their order
KeyEventsOf(evs) == SelectSeq(evs, LAMBDA e : e.Type = EventKey)

\* the events the input fed to the current session calls for
FedEvents == [k \in 1..Len(fed) |-> KeyOrRune(fed[k])]

\* nothing of the current session is on its way: both queues are empty and
\* every goroutine waits for input or has returned
SessionQuiet ==
    /\ chans[gen].runes = <<>>
    /\ chans[gen].events = <<>>
    /\ \A g \in 1..gen : readers[g].pc \in {"read", "done"}
    /\ \A g \in 1..gen : decoders[g].pc \in {"select", "done"}

\* C22: in one running session whose input holds no ESC, the key events the
\* caller has taken are the events of the input runes read so far, one per
\* rune and in input order: a prefix of them at any time, all of them once
\* nothing is on its way.
C22_OneEventPerRune ==
    (/\ gen > 0
     /\ running
     /\ ~SessCrashed
     /\ \A k \in 1..Len(fed) : fed[k] # KeyEsc)
    => /\ IsPrefix(KeyEventsOf(delivered), FedEvents)
       /\ SessionQuiet => KeyEventsOf(delivered) = FedEvents

\* the Resize events put on the event queue of the session so far
ResizeCount ==
    Len(SelectSeq(delivered \o chans[gen].events, LAMBDA e : e.Type = EventResize))

C24_NoSendAfterClose ==
    \A g \in 1..gen : readers[g].pc # "panic" /\ decoders[g].pc # "panic"

\* C25: a reader loop of an earlier Start, whose session has been stopped,
\* returns when its read has returned and never puts a rune on the queue of
\* the later Start: only the reader of the latest Start goes on.
C25_OneReader ==
    [][ \A g \in 1..gen :
          g < gen =>
            /\ (readers[g].pc = "check" /\ readers'[g].pc # "check")
                 => readers'[g].pc = "done"
            /\ ~(readers[g].pc = "send" /\ readers'[g].pc = "read") ]_vars

====
